---- MODULE Spec2Model ----
(***************************************************************************)
(* Constraint accumulation of starky/src/constraint_consumer.rs:           *)
(*   ConstraintConsumer<P>            the native accumulator, one running  *)
(*                                    sum per challenge, over packed field *)
(*                                    values;                              *)
(*   RecursiveConstraintConsumer<F,D> the circuit-symbolic accumulator,    *)
(*                                    one challenge wire and one running-  *)
(*                                    sum wire inside a CircuitBuilder.    *)
(* A session is either native (a ConstraintConsumer of packed width Width) *)
(* or recursive (a RecursiveConstraintConsumer against a builder, run side *)
(* by side with the width-1 ConstraintConsumer<F::Extension> that the      *)
(* plain verifier runs on the same witness values).                        *)
(***************************************************************************)
EXTENDS Integers, Sequences, FiniteSets, TLC

VARIABLES mode, cc, phase, residuals, finalize_calls, trace, last, rc, gates

vars == <<mode, cc, phase, residuals, finalize_calls, trace, last, rc, gates>>

(***************************************************************************)
(* Bounds of the model.                                                    *)
(***************************************************************************)
\* the largest number of constraints emitted in one session
MaxEmit == 3
\* the longest sequence handed to one call of many()
MaxBatch == 2
\* the largest number of challenges handed to new()
MaxAlphas == 2

(***************************************************************************)
(* The field library (plonky2::field), which the consumers only use.       *)
(* A field element is a pair <<a0, a1>> = a0 + a1*X of F_p[X]/(X^2 - ExtW),*)
(* the quadratic extension F::Extension; the base field F is the set of    *)
(* pairs <<a0, 0>>.  P::Scalar ranges over both.                           *)
(***************************************************************************)
Modulus == 61
ExtW == 7
\* PackedField::WIDTH of the native session's packed type
Width == 2

\* F::Extension::from_basefield
Base(n) == <<n % Modulus, 0>>
FZero == <<0, 0>>
FOne == <<1, 0>>
FAdd(a, b) == <<(a[1] + b[1]) % Modulus, (a[2] + b[2]) % Modulus>>
FMul(a, b) ==
    <<(a[1] * b[1] + ExtW * a[2] * b[2]) % Modulus,
      (a[1] * b[2] + a[2] * b[1]) % Modulus>>

\* P::ZEROS for a packed type of width w
PZeros(w) == [k \in 1..w |-> FZero]
\* P + P, P * P and P * P::Scalar: componentwise
PAdd(a, b) == [k \in 1..Len(a) |-> FAdd(a[k], b[k])]
PMul(a, b) == [k \in 1..Len(a) |-> FMul(a[k], b[k])]
PScale(a, s) == [k \in 1..Len(a) |-> FMul(a[k], s)]

(***************************************************************************)
(* ConstraintConsumer<P>                                                   *)
(***************************************************************************)
\* new() with a single running sum, whatever the number of challenges
new_single_acc(alphas, first, last_) ==
    [alphas |-> alphas,
     constraint_accs |-> <<PZeros(Len(first))>>,
     lagrange_basis_first |-> first,
     lagrange_basis_last |-> last_]

new(alphas, first, last_) ==
    [alphas |-> alphas,
     constraint_accs |-> [i \in 1..Len(alphas) |-> PZeros(Len(first))],
     lagrange_basis_first |-> first,
     lagrange_basis_last |-> last_]

\* accumulators() reading the last lane of every running sum
accumulators_last_lane(self) ==
    [i \in 1..Len(self.constraint_accs) |->
        self.constraint_accs[i][Len(self.constraint_accs[i])]]

\* acc.as_slice()[0] of every running sum
accumulators(self) ==
    [i \in 1..Len(self.constraint_accs) |-> self.constraint_accs[i][1]]

\* one() adding the constraint before scaling by alpha
one_add_then_scale(self, constraint) ==
    [self EXCEPT !.constraint_accs =
        [i \in 1..Len(@) |->
            IF i <= Len(self.alphas)
            THEN PScale(PAdd(@[i], constraint), self.alphas[i])
            ELSE @[i]]]

\* one() scaling every running sum by the first challenge
one_first_alpha(self, constraint) ==
    [self EXCEPT !.constraint_accs =
        [i \in 1..Len(@) |->
            IF i <= Len(self.alphas)
            THEN PAdd(PScale(@[i], self.alphas[1]), constraint)
            ELSE @[i]]]

\* one() without the scaling by alpha: a plain sum
one_unweighted(self, constraint) ==
    [self EXCEPT !.constraint_accs =
        [i \in 1..Len(@) |->
            IF i <= Len(self.alphas) THEN PAdd(@[i], constraint) ELSE @[i]]]

\* for (&alpha, acc) in alphas.iter().zip(&mut constraint_accs):
\*     *acc *= alpha; *acc += constraint
one(self, constraint) ==
    [self EXCEPT !.constraint_accs =
        [i \in 1..Len(@) |->
            IF i <= Len(self.alphas)
            THEN PAdd(PScale(@[i], self.alphas[i]), constraint)
            ELSE @[i]]]

\* many() folding the sequence from its end
RECURSIVE many_reversed(_, _)
many_reversed(self, constraints) ==
    IF constraints = <<>>
    THEN self
    ELSE one(many_reversed(self, Tail(constraints)), Head(constraints))

RECURSIVE many(_, _)
many(self, constraints) ==
    IF constraints = <<>>
    THEN self
    ELSE many(one(self, Head(constraints)), Tail(constraints))

\* one_first_row() filtering by the last-row indicator
one_first_row_by_last(self, constraint) ==
    one(self, PMul(constraint, self.lagrange_basis_last))

one_first_row(self, constraint) ==
    one(self, PMul(constraint, self.lagrange_basis_first))

\* one_last_row() multiplying the stored indicator in place
one_last_row_in_place(self, constraint) ==
    LET filtered == PMul(constraint, self.lagrange_basis_last)
    IN [one(self, filtered) EXCEPT !.lagrange_basis_last = filtered]

one_last_row(self, constraint) ==
    one(self, PMul(constraint, self.lagrange_basis_last))

(***************************************************************************)
(* CircuitBuilder (plonky2::plonk::circuit_builder), as far as the         *)
(* recursive consumer uses it.  A builder is the sequence of its gates, a  *)
(* target is the index of the gate that produces it, and an input gate     *)
(* carries the witness value assigned to it.                               *)
(***************************************************************************)
Gate(op, a, b, c, val) == [op |-> op, a |-> a, b |-> b, c |-> c, val |-> val]
InputGate(val) == Gate("input", 0, 0, 0, val)

\* a * b over the extension
mul_extension(builder, a, b) ==
    [builder |-> Append(builder, Gate("mul", a, b, 0, FZero)),
     target |-> Len(builder) + 1]

\* a * b + c, a a base-field target
scalar_mul_add_extension(builder, a, b, c) ==
    [builder |-> Append(builder, Gate("scalar_mul_add", a, b, c, FZero)),
     target |-> Len(builder) + 1]

\* the value a target takes when the circuit is evaluated on its witness
RECURSIVE Eval(_, _)
Eval(builder, t) ==
    LET g == builder[t] IN
    CASE g.op = "input" -> g.val
      [] g.op = "mul" -> FMul(Eval(builder, g.a), Eval(builder, g.b))
      [] g.op = "scalar_mul_add" ->
            FAdd(FMul(Eval(builder, g.a), Eval(builder, g.b)),
                 Eval(builder, g.c))

(***************************************************************************)
(* RecursiveConstraintConsumer<F, D>: each operation returns the consumer  *)
(* and the builder it leaves.                                              *)
(***************************************************************************)
\* one() with the running sum and the constraint exchanged:
\* alpha * constraint + old_acc
rec_one_exchanged(self, builder, constraint) ==
    LET r == scalar_mul_add_extension(builder, self.alpha, constraint,
                                      self.constraint_acc)
    IN [self |-> [self EXCEPT !.constraint_acc = r.target],
        builder |-> r.builder]

rec_one(self, builder, constraint) ==
    LET r == scalar_mul_add_extension(builder, self.alpha,
                                      self.constraint_acc, constraint)
    IN [self |-> [self EXCEPT !.constraint_acc = r.target],
        builder |-> r.builder]

RECURSIVE rec_many(_, _, _)
rec_many(self, builder, constraints) ==
    IF constraints = <<>>
    THEN [self |-> self, builder |-> builder]
    ELSE LET r == rec_one(self, builder, Head(constraints))
         IN rec_many(r.self, r.builder, Tail(constraints))

rec_one_first_row(self, builder, constraint) ==
    LET filtered_constraint ==
            mul_extension(builder, constraint, self.lagrange_basis_first)
    IN rec_one(self, filtered_constraint.builder, filtered_constraint.target)

rec_one_last_row(self, builder, constraint) ==
    LET filtered_constraint ==
            mul_extension(builder, constraint, self.lagrange_basis_last)
    IN rec_one(self, filtered_constraint.builder, filtered_constraint.target)

(***************************************************************************)
(* Inputs.                                                                 *)
(***************************************************************************)
\* a packed value: lane 0 holds v, every other lane w
Packed(v, w) == [k \in 1..Width |-> IF k = 1 THEN v ELSE w]

AlphaInputs == {Base(2), Base(Modulus - 1)}
SeqsUpTo(S, n) == UNION {[1..m -> S] : m \in 0..n}
AlphaSeqs == SeqsUpTo(AlphaInputs, MaxAlphas)

\* constraint values handed to the native consumer: transition constraints
\* to one() and many(), a boundary constraint to one_first_row() and another
\* to one_last_row()
PackedInputs ==
    {Packed(Base(3), FZero), Packed(Base(5), <<1, 1>>), Packed(Base(7), Base(7))}
FirstRowInputs == {Packed(Base(5), <<1, 1>>)}
LastRowInputs == {Packed(<<4, 2>>, Base(7))}

\* the boundary indicators of a row batch: on the trace domain, lane 0 on
\* the first row and the other lanes on the last; and off the trace domain
IndicatorInputs ==
    {[first |-> Packed(FOne, FZero), last_ |-> Packed(FZero, FOne)],
     [first |-> Packed(Base(3), <<2, 5>>), last_ |-> Packed(Base(4), Base(6))]}

\* the recursive session: witness values of the alpha wire, of the two
\* boundary-indicator wires and of the constraint wires
RecAlphaInputs == {2, Modulus - 1}
RecIndicatorInputs ==
    {[first |-> FOne, last_ |-> FZero],
     [first |-> FZero, last_ |-> FOne],
     [first |-> <<3, 1>>, last_ |-> <<0, 2>>]}
RecConstraintVals == <<(<<5, 1>>), (<<0, 7>>)>>

\* the targets of the builder of a recursive session before any emission
AlphaTarget == 1
AccTarget == 2
FirstTarget == 3
LastTarget == 4
ConstraintTargets == {4 + j : j \in 1..Len(RecConstraintVals)}

NoConsumer ==
    [alpha |-> 0, constraint_acc |-> 0,
     lagrange_basis_first |-> 0, lagrange_basis_last |-> 0]

Call(op, args) == [op |-> op, args |-> args]
Entry(op, c) == [op |-> op, c |-> c]

(***************************************************************************)
(* The state machine.                                                      *)
(***************************************************************************)
InitNative ==
    /\ mode = "native"
    /\ \E alphas \in AlphaSeqs, ind \in IndicatorInputs :
          cc = new(alphas, ind.first, ind.last_)
    /\ rc = NoConsumer
    /\ gates = <<>>

InitRecursive ==
    /\ mode = "recursive"
    /\ \E a \in RecAlphaInputs, ind \in RecIndicatorInputs :
          /\ cc = new(<<Base(a)>>, <<ind.first>>, <<ind.last_>>)
          /\ gates = <<InputGate(Base(a)), InputGate(FZero),
                       InputGate(ind.first), InputGate(ind.last_)>>
                     \o [j \in 1..Len(RecConstraintVals) |->
                            InputGate(RecConstraintVals[j])]
    /\ rc = [alpha |-> AlphaTarget, constraint_acc |-> AccTarget,
             lagrange_basis_first |-> FirstTarget,
             lagrange_basis_last |-> LastTarget]

Init ==
    /\ InitNative \/ InitRecursive
    /\ phase = "live"
    /\ residuals = <<>>
    /\ finalize_calls = 0
    /\ trace = <<>>
    /\ last = Call("new", <<>>)

CanEmit(n) == phase = "live" /\ Len(trace) + n <= MaxEmit

One ==
    /\ mode = "native" /\ CanEmit(1)
    /\ \E c \in PackedInputs :
          /\ cc' = one(cc, c)
          /\ trace' = Append(trace, Entry("one", c))
          /\ last' = Call("one", <<c>>)
    /\ UNCHANGED <<mode, phase, residuals, finalize_calls, rc, gates>>

Many ==
    /\ mode = "native" /\ phase = "live"
    /\ \E cs \in SeqsUpTo(PackedInputs, MaxBatch) :
          /\ CanEmit(Len(cs))
          /\ cc' = many(cc, cs)
          /\ trace' = trace \o [j \in 1..Len(cs) |-> Entry("one", cs[j])]
          /\ last' = Call("many", cs)
    /\ UNCHANGED <<mode, phase, residuals, finalize_calls, rc, gates>>

OneFirstRow ==
    /\ mode = "native" /\ CanEmit(1)
    /\ \E c \in FirstRowInputs :
          /\ cc' = one_first_row(cc, c)
          /\ trace' = Append(trace, Entry("one_first_row", c))
          /\ last' = Call("one_first_row", <<c>>)
    /\ UNCHANGED <<mode, phase, residuals, finalize_calls, rc, gates>>

OneLastRow ==
    /\ mode = "native" /\ CanEmit(1)
    /\ \E c \in LastRowInputs :
          /\ cc' = one_last_row(cc, c)
          /\ trace' = Append(trace, Entry("one_last_row", c))
          /\ last' = Call("one_last_row", <<c>>)
    /\ UNCHANGED <<mode, phase, residuals, finalize_calls, rc, gates>>

\* accumulators(&self): the consumer stays usable
AccumulatorsByReference ==
    /\ phase = "live"
    /\ residuals' = accumulators(cc)
    /\ finalize_calls' = finalize_calls + 1
    /\ last' = Call("accumulators", <<>>)
    /\ UNCHANGED <<mode, cc, phase, trace, rc, gates>>

\* accumulators(self) takes the consumer by value
Accumulators ==
    /\ phase = "live"
    /\ residuals' = accumulators(cc)
    /\ phase' = "consumed"
    /\ finalize_calls' = finalize_calls + 1
    /\ last' = Call("accumulators", <<>>)
    /\ UNCHANGED <<mode, cc, trace, rc, gates>>

\* the recursive consumer and the native one receive the same emission: the
\* native one the witness value of the wire the recursive one is handed
RecOne ==
    /\ mode = "recursive" /\ CanEmit(1)
    /\ \E t \in ConstraintTargets :
          LET r == rec_one(rc, gates, t) IN
          /\ rc' = r.self
          /\ gates' = r.builder
          /\ cc' = one(cc, <<Eval(gates, t)>>)
          /\ trace' = Append(trace, Entry("one", <<Eval(gates, t)>>))
          /\ last' = Call("one", <<t>>)
    /\ UNCHANGED <<mode, phase, residuals, finalize_calls>>

RecMany ==
    /\ mode = "recursive" /\ phase = "live"
    /\ \E ts \in SeqsUpTo(ConstraintTargets, MaxBatch) :
          LET r == rec_many(rc, gates, ts)
              cs == [j \in 1..Len(ts) |-> <<Eval(gates, ts[j])>>]
          IN
          /\ CanEmit(Len(ts))
          /\ rc' = r.self
          /\ gates' = r.builder
          /\ cc' = many(cc, cs)
          /\ trace' = trace \o [j \in 1..Len(cs) |-> Entry("one", cs[j])]
          /\ last' = Call("many", ts)
    /\ UNCHANGED <<mode, phase, residuals, finalize_calls>>

RecOneFirstRow ==
    /\ mode = "recursive" /\ CanEmit(1)
    /\ \E t \in ConstraintTargets :
          LET r == rec_one_first_row(rc, gates, t) IN
          /\ rc' = r.self
          /\ gates' = r.builder
          /\ cc' = one_first_row(cc, <<Eval(gates, t)>>)
          /\ trace' = Append(trace, Entry("one_first_row", <<Eval(gates, t)>>))
          /\ last' = Call("one_first_row", <<t>>)
    /\ UNCHANGED <<mode, phase, residuals, finalize_calls>>

RecOneLastRow ==
    /\ mode = "recursive" /\ CanEmit(1)
    /\ \E t \in ConstraintTargets :
          LET r == rec_one_last_row(rc, gates, t) IN
          /\ rc' = r.self
          /\ gates' = r.builder
          /\ cc' = one_last_row(cc, <<Eval(gates, t)>>)
          /\ trace' = Append(trace, Entry("one_last_row", <<Eval(gates, t)>>))
          /\ last' = Call("one_last_row", <<t>>)
    /\ UNCHANGED <<mode, phase, residuals, finalize_calls>>

Next ==
    \/ One
    \/ Many
    \/ OneFirstRow
    \/ OneLastRow
    \/ Accumulators
    \/ RecOne
    \/ RecMany
    \/ RecOneFirstRow
    \/ RecOneLastRow

Spec == Init /\ [][Next]_vars

(***************************************************************************)
(* Reference definitions the properties are stated with.                   *)
(***************************************************************************)
Lanes == 1..Len(cc.lagrange_basis_first)
Challenges == 1..Len(cc.alphas)

\* ((...((0*alpha + c_1)*alpha + c_2)...)*alpha + c_n
RECURSIVE HornerUpTo(_, _, _)
HornerUpTo(alpha, cs, n) ==
    IF n = 0
    THEN FZero
    ELSE FAdd(FMul(HornerUpTo(alpha, cs, n - 1), alpha), cs[n])
HornerFold(alpha, cs) == HornerUpTo(alpha, cs, Len(cs))

RECURSIVE Pow(_, _)
Pow(a, n) == IF n = 0 THEN FOne ELSE FMul(a, Pow(a, n - 1))

\* the sum over k = from..n of c_k * alpha^(n-k)
RECURSIVE PowerSumFrom(_, _, _)
PowerSumFrom(alpha, cs, from) ==
    IF from > Len(cs)
    THEN FZero
    ELSE FAdd(FMul(cs[from], Pow(alpha, Len(cs) - from)),
              PowerSumFrom(alpha, cs, from + 1))
PowerSum(alpha, cs) == PowerSumFrom(alpha, cs, 1)

\* every emission so far went through one() (directly or from many())
OnlyOne == \A j \in 1..Len(trace) : trace[j].op = "one"
\* lane k of the constraints emitted so far
EmittedLane(k) == [j \in 1..Len(trace) |-> trace[j].c[k]]
\* lane k of the values folded so far: the constraint, times the boundary
\* indicator the emission names
FoldedLane(k) ==
    [j \in 1..Len(trace) |->
        CASE trace[j].op = "one" -> trace[j].c[k]
          [] trace[j].op = "one_first_row" ->
                FMul(trace[j].c[k], cc.lagrange_basis_first[k])
          [] trace[j].op = "one_last_row" ->
                FMul(trace[j].c[k], cc.lagrange_basis_last[k])]

\* the consumer after the emissions of tr, in order
ApplyEntry(self, e) ==
    CASE e.op = "one" -> one(self, e.c)
      [] e.op = "one_first_row" -> one_first_row(self, e.c)
      [] e.op = "one_last_row" -> one_last_row(self, e.c)
RECURSIVE ReplayUpTo(_, _, _)
ReplayUpTo(self, tr, n) ==
    IF n = 0 THEN self ELSE ApplyEntry(ReplayUpTo(self, tr, n - 1), tr[n])
Replay(self, tr) == ReplayUpTo(self, tr, Len(tr))

\* a one-challenge consumer with the boundary indicators of cc
Single(alpha) ==
    new(<<alpha>>, cc.lagrange_basis_first, cc.lagrange_basis_last)

Swap(s, j, m) ==
    [x \in 1..Len(s) |-> IF x = j THEN s[m] ELSE IF x = m THEN s[j] ELSE s[x]]

(***************************************************************************)
(* C1 as stated: when every emission went through one(), accumulators()    *)
(* returns for each challenge alpha_i the value                            *)
(* ((...((0*alpha_i + c_1)*alpha_i + c_2)...)*alpha_i + c_n); challenges   *)
(* [2] with constraints 3, 5, 7 give 45, and no emission gives 0.          *)
(***************************************************************************)
HornerResiduals ==
    /\ Len(residuals) = Len(cc.alphas)
    /\ \A i \in Challenges :
          residuals[i] = HornerFold(cc.alphas[i], EmittedLane(1))
    /\ trace = <<>> => \A i \in Challenges : residuals[i] = FZero

Scenario ==
    /\ cc.alphas = <<Base(2)>>
    /\ EmittedLane(1) = <<Base(3), Base(5), Base(7)>>

C1_AsStated ==
    (phase = "consumed" /\ OnlyOne) =>
        /\ HornerResiduals
        /\ Scenario => residuals = <<Base(45)>>

(***************************************************************************)
(* C1 (amended)  Horner-fold correctness.  When every emission went        *)
(* through one(), accumulators() returns for each challenge alpha_i the    *)
(* value ((...((0*alpha_i + c_1)*alpha_i + c_2)...)*alpha_i + c_n);        *)
(* challenges [2] with constraints 3, 5, 7 give ((0*2+3)*2+5)*2+7 = 29,    *)
(* and no emission gives 0.                                                *)
(***************************************************************************)
C1_HornerFold ==
    (phase = "consumed" /\ OnlyOne) =>
        /\ HornerResiduals
        /\ Scenario => residuals = <<Base(29)>>

C1_Witness ==
    /\ phase = "consumed" /\ OnlyOne
    /\ Scenario
    /\ residuals = <<Base(29)>>

(***************************************************************************)
(* C10 as stated: after n emissions c_1..c_n through one() each running    *)
(* sum is the sum over k of c_k * alpha_i^(n-k), and swapping two emitted  *)
(* constraints of different value changes the running sum whenever alpha_i *)
(* is neither 0 nor 1.                                                     *)
(***************************************************************************)
\* the running sums after the emissions of trace with those at j and m
\* exchanged
SwappedRun(j, m) ==
    Replay(new(cc.alphas, cc.lagrange_basis_first, cc.lagrange_basis_last),
           Swap(trace, j, m))

PowersOfAlpha ==
    \A i \in Challenges : \A k \in Lanes :
        cc.constraint_accs[i][k] = PowerSum(cc.alphas[i], EmittedLane(k))

C10_AsStated ==
    OnlyOne =>
        /\ PowersOfAlpha
        /\ \A j \in 1..Len(trace) : \A m \in (j + 1)..Len(trace) :
           LET swapped == SwappedRun(j, m).constraint_accs IN
           \A i \in Challenges : \A k \in Lanes :
              (/\ trace[j].c[k] # trace[m].c[k]
               /\ cc.alphas[i] \notin {FZero, FOne})
              => swapped[i][k] # cc.constraint_accs[i][k]

(***************************************************************************)
(* C10 (amended)  Powers-of-alpha weighting.  After n emissions c_1..c_n   *)
(* through one() each running sum is the sum over k of c_k*alpha_i^(n-k):  *)
(* the latest constraint has weight 1, the earliest alpha_i^(n-1).         *)
(* Swapping the constraints emitted at positions j < m, of different       *)
(* value, changes the running sum whenever alpha_i # 0 and                 *)
(* alpha_i^(m-j) # 1; for two adjacent emissions that is whenever alpha_i  *)
(* is neither 0 nor 1.                                                     *)
(***************************************************************************)
C10_PowersOfAlpha ==
    OnlyOne =>
        /\ PowersOfAlpha
        /\ \A j \in 1..Len(trace) : \A m \in (j + 1)..Len(trace) :
           LET swapped == SwappedRun(j, m).constraint_accs IN
           \A i \in Challenges : \A k \in Lanes :
              (/\ trace[j].c[k] # trace[m].c[k]
               /\ cc.alphas[i] # FZero
               /\ Pow(cc.alphas[i], m - j) # FOne)
              => swapped[i][k] # cc.constraint_accs[i][k]

\* MaxEmit emissions through one(), the first two of different value, and a
\* challenge that is neither 0 nor 1: exchanging the two changes the sum
C10_Witness ==
    /\ OnlyOne /\ Len(trace) = MaxEmit
    /\ \E i \in Challenges :
          /\ cc.alphas[i] \notin {FZero, FOne}
          /\ trace[1].c[1] # trace[2].c[1]
          /\ SwappedRun(1, 2).constraint_accs[i][1] # cc.constraint_accs[i][1]
          /\ cc.constraint_accs[i][1] = PowerSum(cc.alphas[i], EmittedLane(1))
          /\ cc.constraint_accs[i][1] # FZero

(***************************************************************************)
(* C6  Designated-lane finalize.  Lane k of every running sum is the       *)
(* Horner fold of lane k of the folded values (the constraint, times lane  *)
(* k of the boundary indicator the emission names), and accumulators()     *)
(* returns lane 0 of each running sum: the residuals are a function of     *)
(* lane 0 of the constraints and indicators alone.                         *)
(***************************************************************************)
C6_DesignatedLane ==
    /\ \A i \in Challenges : \A k \in Lanes :
          cc.constraint_accs[i][k] = HornerFold(cc.alphas[i], FoldedLane(k))
    /\ phase = "consumed" =>
          /\ Len(residuals) = Len(cc.alphas)
          /\ \A i \in Challenges :
                residuals[i] = HornerFold(cc.alphas[i], FoldedLane(1))

\* a finalized packed session whose lanes ended with different sums
C6_Witness ==
    /\ phase = "consumed" /\ mode = "native" /\ Width > 1
    /\ Len(trace) = MaxEmit
    /\ \E i \in Challenges :
          /\ residuals[i] = cc.constraint_accs[i][1]
          /\ residuals[i] # cc.constraint_accs[i][Width]
          /\ residuals[i] # FZero

(***************************************************************************)
(* C9  Multi-challenge independence.  The i-th running sum, and the i-th   *)
(* residual accumulators() returns, are those of a one-challenge consumer  *)
(* built with alpha_i alone and fed the same emissions.                    *)
(***************************************************************************)
C9_Independence ==
    \A i \in Challenges :
        LET single == Replay(Single(cc.alphas[i]), trace) IN
        /\ cc.constraint_accs[i] = single.constraint_accs[1]
        /\ phase = "consumed" => residuals[i] = accumulators(single)[1]

\* two distinct challenges, the same emissions, two different residuals
C9_Witness ==
    /\ phase = "consumed" /\ Len(cc.alphas) = 2 /\ trace # <<>>
    /\ cc.alphas[1] # cc.alphas[2]
    /\ residuals[1] # residuals[2]

(***************************************************************************)
(* C5  One running sum per challenge.  new() creates len(alphas) running   *)
(* sums, all zero; in every state there are as many running sums as        *)
(* challenges; accumulators() returns len(alphas) residuals, the i-th the  *)
(* designated lane of the i-th running sum; with no challenge every        *)
(* operation goes through and accumulators() returns the empty sequence.   *)
(***************************************************************************)
C5_OnePerChallenge ==
    /\ Len(cc.constraint_accs) = Len(cc.alphas)
    /\ last.op = "new" =>
          \A i \in Challenges : cc.constraint_accs[i] = PZeros(Len(cc.lagrange_basis_first))
    /\ phase = "live" => ENABLED Accumulators
    /\ (phase = "live" /\ mode = "native" /\ Len(trace) < MaxEmit) =>
          ENABLED One /\ ENABLED OneFirstRow /\ ENABLED OneLastRow
              /\ ENABLED Many
    /\ phase = "consumed" =>
          /\ Len(residuals) = Len(cc.alphas)
          /\ \A i \in Challenges : residuals[i] = cc.constraint_accs[i][1]
          /\ cc.alphas = <<>> => residuals = <<>>

\* a finalized session with no challenge that received emissions
C5_Witness ==
    /\ phase = "consumed" /\ cc.alphas = <<>>
    /\ Len(trace) = MaxEmit
    /\ residuals = <<>>

(***************************************************************************)
(* Steps, recognised by the call they record.                              *)
(***************************************************************************)
\* the step is a call of op that emitted one constraint
Emits(op) == last'.op = op /\ Len(trace') = Len(trace) + 1
\* the constraint that step emitted
Emitted == trace'[Len(trace')].c
\* the value of a target of the recursive session
Value(t) == Eval(gates, t)

RECURSIVE OnesUpTo(_, _, _)
\* one(cs[1]), ..., one(cs[n]) in that order
OnesUpTo(self, cs, n) ==
    IF n = 0 THEN self ELSE one(OnesUpTo(self, cs, n - 1), cs[n])

RECURSIVE RecOnesUpTo(_, _, _, _)
RecOnesUpTo(self, builder, ts, n) ==
    IF n = 0
    THEN [self |-> self, builder |-> builder]
    ELSE LET r == RecOnesUpTo(self, builder, ts, n - 1)
         IN rec_one(r.self, r.builder, ts[n])

(***************************************************************************)
(* C3  Boundary-filter zeroing.  one_first_row(c) takes every running sum  *)
(* acc_i to acc_i*alpha_i + c*lagrange_basis_first: the effect of one(c)   *)
(* where the first-row indicator is 1 and of one(0), whatever c, where it  *)
(* is 0; one_last_row likewise with the last-row indicator; neither reads  *)
(* the other indicator.  The same for the recursive consumer's wire.       *)
(***************************************************************************)
FilteredBy(ind, rind) ==
    /\ \A i \in Challenges : \A k \in Lanes :
          /\ cc'.constraint_accs[i][k] =
                FAdd(FMul(cc.constraint_accs[i][k], cc.alphas[i]),
                     FMul(Emitted[k], ind[k]))
          /\ ind[k] = FOne =>
                cc'.constraint_accs[i][k] =
                    one(cc, Emitted).constraint_accs[i][k]
          /\ ind[k] = FZero =>
                cc'.constraint_accs[i][k] =
                    one(cc, PZeros(Len(ind))).constraint_accs[i][k]
    /\ mode = "recursive" =>
          Eval(gates', rc'.constraint_acc) =
              FAdd(FMul(Value(rc.constraint_acc), Value(rc.alpha)),
                   FMul(Emitted[1], Value(rind)))

C3_BoundaryFilter ==
    [][/\ Emits("one_first_row") =>
              FilteredBy(cc.lagrange_basis_first, rc.lagrange_basis_first)
       /\ Emits("one_last_row") =>
              FilteredBy(cc.lagrange_basis_last, rc.lagrange_basis_last)]_vars

\* a nonzero last-row constraint emitted off the last row, onto a nonzero
\* running sum
C3_Witness ==
    /\ last.op = "one_last_row" /\ Len(trace) = MaxEmit
    /\ cc.lagrange_basis_last[1] = FZero
    /\ trace[Len(trace)].c[1] # FZero
    /\ \E i \in Challenges : cc.constraint_accs[i][1] # FZero

(***************************************************************************)
(* C4  Batch equivalence.  many([c_1,...,c_n]) leaves the consumer in the  *)
(* state that one(c_1), ..., one(c_n), called in that order, leave it in,  *)
(* the empty sequence included; the recursive consumer's many() likewise   *)
(* leaves the consumer and the builder of the n calls of one().            *)
(***************************************************************************)
C4_BatchEquivalence ==
    [][last'.op = "many" =>
          LET args == last'.args
              n == Len(args)
          IN IF mode = "native"
             THEN cc' = OnesUpTo(cc, args, n)
             ELSE LET r == RecOnesUpTo(rc, gates, args, n)
                      cs == [j \in 1..n |-> <<Value(args[j])>>]
                  IN /\ rc' = r.self
                     /\ gates' = r.builder
                     /\ cc' = OnesUpTo(cc, cs, n)]_vars

\* a batch of MaxBatch constraints, not all the same, onto a nonzero sum
C4_Witness ==
    /\ last.op = "many" /\ Len(last.args) = MaxBatch
    /\ mode = "native" /\ Len(trace) > MaxBatch
    /\ last.args[1] # last.args[MaxBatch]
    /\ cc.alphas # <<>>

(***************************************************************************)
(* C2  Native/symbolic equivalence.  In a recursive session whose wires    *)
(* carry the values the native consumer was built with, and whose running- *)
(* sum wire starts at zero, the value of the running-sum wire equals the   *)
(* native running sum after every emission, and each one() yields          *)
(* alpha*old_acc + constraint.                                             *)
(***************************************************************************)
C2_NativeSymbolic ==
    /\ [](mode = "recursive" =>
            /\ cc.alphas = <<Value(rc.alpha)>>
            /\ cc.lagrange_basis_first = <<Value(rc.lagrange_basis_first)>>
            /\ cc.lagrange_basis_last = <<Value(rc.lagrange_basis_last)>>
            /\ cc.constraint_accs = <<(<<Value(rc.constraint_acc)>>)>>)
    /\ [][(mode = "recursive" /\ Emits("one")) =>
            Eval(gates', rc'.constraint_acc) =
                FAdd(FMul(Value(rc.alpha), Value(rc.constraint_acc)),
                     Emitted[1])]_vars

\* a recursive session after MaxEmit emissions, a boundary-filtered one on
\* its row among them, with a nonzero running sum
C2_Witness ==
    /\ mode = "recursive" /\ Len(trace) = MaxEmit
    /\ \E j \in 1..Len(trace) :
          /\ trace[j].op = "one_first_row"
          /\ cc.lagrange_basis_first[1] \notin {FZero, FOne}
    /\ Value(rc.constraint_acc) # FZero
    /\ cc.constraint_accs[1][1] = Value(rc.constraint_acc)

(***************************************************************************)
(* C7  Emissions change only the running sums.  Every emission leaves the  *)
(* challenges and both boundary indicators of the native consumer as they  *)
(* are; on the recursive consumer it leaves the alpha wire and both        *)
(* boundary-indicator wires, and every gate already in the builder, as     *)
(* they are, and replaces the running-sum wire alone.                      *)
(***************************************************************************)
C7_Frame ==
    [][phase' = "live" =>
          /\ cc'.alphas = cc.alphas
          /\ cc'.lagrange_basis_first = cc.lagrange_basis_first
          /\ cc'.lagrange_basis_last = cc.lagrange_basis_last
          /\ rc'.alpha = rc.alpha
          /\ rc'.lagrange_basis_first = rc.lagrange_basis_first
          /\ rc'.lagrange_basis_last = rc.lagrange_basis_last
          /\ Len(gates') >= Len(gates)
          /\ \A t \in 1..Len(gates) : gates'[t] = gates[t]]_vars

\* a recursive session whose running-sum wire was replaced MaxEmit times
C7_Witness ==
    /\ mode = "recursive" /\ Len(trace) = MaxEmit
    /\ last.op = "one_last_row"
    /\ rc.alpha = AlphaTarget
    /\ rc.lagrange_basis_first = FirstTarget
    /\ rc.lagrange_basis_last = LastTarget
    /\ rc.constraint_acc = Len(gates)
    /\ cc.constraint_accs # new(cc.alphas, cc.lagrange_basis_first,
                                cc.lagrange_basis_last).constraint_accs

(***************************************************************************)
(* C8  Finalize-once lifecycle.  accumulators() is called at most once on  *)
(* a consumer, and after it no emission and no second accumulators()       *)
(* happens: a finalized session takes no further step.                     *)
(***************************************************************************)
C8_FinalizeOnce ==
    /\ [](/\ finalize_calls <= 1
          /\ phase = "consumed" <=> finalize_calls = 1)
    /\ [][phase = "consumed" => UNCHANGED vars]_vars

\* a session finalized after emissions
C8_Witness ==
    /\ phase = "consumed" /\ finalize_calls = 1
    /\ last.op = "accumulators"
    /\ Len(trace) = MaxEmit

====
